---------------------------- MODULE Spec2Model ----------------------------
(***************************************************************************)
(* Model of src/lib/api.ts: the axios instance `api`, its response-error   *)
(* interceptor, and the operations of `whatsappApi`.                        *)
(*                                                                         *)
(* One request is followed from the call of an operation, through the      *)
(* backend's answer (or a network failure), axios' settling of the         *)
(* request, the response interceptor, and the operation's own handling of  *)
(* the awaited promise, to the promise the operation returns.              *)
(*                                                                         *)
(* JavaScript objects are records whose DOMAIN holds the fields that are   *)
(* present; an optional value is a set with at most one element.           *)
(***************************************************************************)
EXTENDS Integers, Sequences, FiniteSets, TLC

VARIABLES
    pc,          \* "idle", "requested", "settled", "intercepted", "done"
    op,          \* the operation of whatsappApi being called
    arg,         \* its arguments: a record with an optional sessionId
    config,      \* the axios request config: method and url
    outcome,     \* what the backend did: an HTTP response or a network failure
    settled,     \* the promise of the request before the interceptor
    intercepted, \* the promise api.post/get/delete returns (after the interceptor)
    result,      \* the promise the operation returns
    last         \* status, body.retryable, ok, retryable of the previous createSession

vars == <<pc, op, arg, config, outcome, settled, intercepted, result, last>>

---------------------------------------------------------------------------
(* JavaScript values *)

\* The object {}; also the value of a variable that holds nothing yet.
EmptyObject == [k \in {} |-> TRUE]

\* An object with the single field name when opt holds a value, else {}.
Fld(name, opt) == [k \in {n \in {name} : opt # {}} |-> CHOOSE v \in opt : TRUE]

Has(o, f) == f \in DOMAIN o

\* o?.f as an optional value
Get(o, f) == IF Has(o, f) THEN {o[f]} ELSE {}

\* Truthiness of an optional string: undefined and "" are falsy.
TruthyStr(opt) == \E v \in opt : v # ""

\* a || b || dflt on optional strings
OrStr(a, b, dflt) ==
    IF TruthyStr(a) THEN CHOOSE v \in a : TRUE
    ELSE IF TruthyStr(b) THEN CHOOSE v \in b : TRUE
    ELSE dflt

---------------------------------------------------------------------------
(* The operations and the requests they build *)

Operations ==
    {"createSession", "getAllSessions", "getSessionStatus", "logout",
     "destroySession", "sendTextMessage", "sendMediaMessage", "healthCheck"}

\* The session ids a caller passes.
SessionIdArgs == {{}, {""}, {"s1"}}

\* `${sessionId}` in a template string
Interpolate(opt) == IF opt = {} THEN "undefined" ELSE CHOOSE v \in opt : TRUE

RequestConfig(o, a) ==
    LET sid == Interpolate(Get(a, "sessionId")) IN
    CASE o = "createSession"    -> [method |-> "post",   url |-> "/sessions"]
      [] o = "getAllSessions"   -> [method |-> "get",    url |-> "/sessions"]
      [] o = "getSessionStatus" -> [method |-> "get",    url |-> "/sessions/" \o sid]
      [] o = "logout"           -> [method |-> "post",   url |-> "/sessions/" \o sid \o "/logout"]
      [] o = "destroySession"   -> [method |-> "delete", url |-> "/sessions/" \o sid]
      [] o = "sendTextMessage"  -> [method |-> "post",   url |-> "/sessions/" \o sid \o "/send-text"]
      [] o = "sendMediaMessage" -> [method |-> "post",   url |-> "/sessions/" \o sid \o "/send-media"]
      [] o = "healthCheck"      -> [method |-> "get",    url |-> "/health"]

\* String.prototype.includes
Includes(s, sub) ==
    \E i \in 1..(Len(s) - Len(sub) + 1) : SubSeq(s, i, i + Len(sub) - 1) = sub

---------------------------------------------------------------------------
(* What the backend can answer *)

Statuses == {200, 201, 400, 404, 500, 503}

\* A response without a body: response.data is falsy.
NoBody == [nobody |-> TRUE]

ASession == [id |-> "s2", status |-> "qr"]

Bodies ==
    { Fld("retryable", r) @@ Fld("message", m) @@ Fld("error", e)
        @@ Fld("data", d) @@ Fld("sessionId", s) :
        r \in {{}, {TRUE}, {FALSE}},
        m \in {{}, {"Session limit reached"}},
        e \in {{}, {""}, {"Backend exploded"}},
        d \in {{}, {ASession}},
        s \in {{}, {""}, {"s3"}} }
    \cup {NoBody}

Headers == { Fld("retry-after", h) : h \in {{}, {"30"}} }

Responses == [status : Statuses, data : Bodies, headers : Headers]

\* The messages of the errors axios raises when no response arrives.
NetworkMessages == {"Network Error", ""}

---------------------------------------------------------------------------
(* axios: settling a request *)

\* The instance is created without validateStatus: axios' default applies.
ValidateStatus(status) == status >= 200 /\ status < 300

Fulfilled(v) == [state |-> "fulfilled", value |-> v]
Rejected(e)  == [state |-> "rejected", reason |-> e]

AxiosError(msg, cfg, respOpt) ==
    [name |-> "AxiosError", message |-> msg, config |-> cfg] @@ Fld("response", respOpt)

NewError(msg) == [name |-> "Error", message |-> msg]

Settle(cfg, out) ==
    IF out.kind = "network"
    THEN Rejected(AxiosError(out.message, cfg, {}))
    ELSE IF ValidateStatus(out.response.status)
         THEN Fulfilled(out.response)
         ELSE Rejected(AxiosError(
                  "Request failed with status code " \o ToString(out.response.status),
                  cfg, {out.response}))

---------------------------------------------------------------------------
(* The response interceptor *)

\* Variant: an interceptor without the exception for 503 answers.
PassThroughNoException(error) == FALSE

\* error.response?.status === 503 && error.config?.url?.includes('/sessions')
PassThrough(error) ==
    /\ Has(error, "response")
    /\ error.response.status = 503
    /\ Has(error, "config")
    /\ Includes(error.config.url, "/sessions")

\* error.response?.data?.error
ResponseDataError(error) ==
    IF Has(error, "response") THEN Get(error.response.data, "error") ELSE {}

\* Variant: the normalized message read from body.message instead of body.error.
NormalizedMessageFromBodyMessage(error) ==
    OrStr(IF Has(error, "response") THEN Get(error.response.data, "message") ELSE {},
          {error.message}, "Unknown error occurred")

NormalizedMessage(error) ==
    OrStr(ResponseDataError(error), {error.message}, "Unknown error occurred")

OnRejected(error) ==
    IF PassThrough(error)
    THEN Rejected(error)
    ELSE Rejected(NewError(NormalizedMessage(error)))

Intercept(p) ==
    IF p.state = "fulfilled" THEN p ELSE OnRejected(p.reason)

---------------------------------------------------------------------------
(* whatsappApi.createSession *)

MsgUnavailable == "Service temporarily unavailable. Retrying..."
MsgInitFailed  == "Failed to initialize WhatsApp session. Please try again later."

HttpMessage(status) == "HTTP " \o ToString(status)

\* response.data || {}
BodyOf(data) == IF Has(data, "nobody") THEN EmptyObject ELSE data

\* body?.retryable !== false
IsRetryable(body) == Get(body, "retryable") # {FALSE}

\* Variant: the fallback id prefers the argument over the body's sessionId.
FallbackSessionArgFirst(body, a) ==
    [id |-> OrStr(Get(a, "sessionId"), Get(body, "sessionId"), "default"),
     status |-> "initializing"]

FallbackSession(body, a) ==
    [id |-> OrStr(Get(body, "sessionId"), Get(a, "sessionId"), "default"),
     status |-> "initializing"]

\* Variant: every fulfilled request counts as a created session.
OnResponseAnyFulfilled(response, a) ==
    LET body == BodyOf(response.data) IN
    [ok |-> TRUE,
     sessionData |-> IF Has(body, "data") THEN body.data
                     ELSE FallbackSession(body, a)]

\* Variant: the unclassified branch copies the 503 branch's retryable.
OnResponseRetryableEverywhere(response, a) ==
    LET body == BodyOf(response.data) IN
    IF response.status = 201
    THEN [ok |-> TRUE,
          sessionData |-> IF Has(body, "data") THEN body.data
                          ELSE FallbackSession(body, a)]
    ELSE [ok |-> FALSE, retryable |-> IsRetryable(body),
          message |-> OrStr(Get(body, "message"), {}, HttpMessage(response.status))]

\* The try block, after the awaited request is fulfilled.
OnResponse(response, a) ==
    LET body == BodyOf(response.data) IN
    IF response.status = 201
    THEN [ok |-> TRUE,
          sessionData |-> IF Has(body, "data") THEN body.data
                          ELSE FallbackSession(body, a)]
    ELSE IF response.status = 503
    THEN [ok |-> FALSE, retryable |-> IsRetryable(body), message |-> MsgUnavailable]
         @@ Fld("retryAfter", Get(response.headers, "retry-after"))
    ELSE IF response.status = 500 /\ Get(body, "retryable") = {FALSE}
    THEN [ok |-> FALSE, retryable |-> FALSE, message |-> MsgInitFailed]
    ELSE [ok |-> FALSE, retryable |-> FALSE,
          message |-> OrStr(Get(body, "message"), {}, HttpMessage(response.status))]

\* The catch block.
OnError(error) ==
    IF Has(error, "response")
    THEN LET body   == BodyOf(error.response.data)
             status == error.response.status
         IN
         IF status = 503
         THEN [ok |-> FALSE, retryable |-> IsRetryable(body), message |-> MsgUnavailable]
              @@ Fld("retryAfter", Get(error.response.headers, "retry-after"))
         ELSE IF status = 500 /\ Get(body, "retryable") = {FALSE}
         THEN [ok |-> FALSE, retryable |-> FALSE, message |-> MsgInitFailed]
         ELSE [ok |-> FALSE, retryable |-> FALSE,
               message |-> OrStr(Get(body, "message"), {}, HttpMessage(status))]
    ELSE [ok |-> FALSE, retryable |-> FALSE,
          message |-> OrStr({error.message}, {}, "Network error")]

\* Variant: the catch block rethrows an error that carries no response.
CreateSessionResultRethrow(p, a) ==
    IF p.state = "fulfilled"
    THEN Fulfilled(OnResponse(p.value, a))
    ELSE IF Has(p.reason, "response") THEN Fulfilled(OnError(p.reason)) ELSE p

CreateSessionResult(p, a) ==
    IF p.state = "fulfilled"
    THEN Fulfilled(OnResponse(p.value, a))
    ELSE Fulfilled(OnError(p.reason))

\* Variant: a failed request is turned into a failure body instead of thrown.
PlainResultSwallow(p) ==
    IF p.state = "fulfilled" THEN Fulfilled(p.value.data)
    ELSE Fulfilled([success |-> FALSE, error |-> p.reason.message])

\* Every other operation: `const response = await api...; return response.data`.
PlainResult(p) ==
    IF p.state = "fulfilled" THEN Fulfilled(p.value.data) ELSE p

---------------------------------------------------------------------------
(* The state machine *)

NoLast == [seen |-> FALSE]

Init ==
    /\ pc = "idle"
    /\ op = "none"
    /\ arg = EmptyObject
    /\ config = EmptyObject
    /\ outcome = EmptyObject
    /\ settled = EmptyObject
    /\ intercepted = EmptyObject
    /\ result = EmptyObject
    /\ last = NoLast

\* createSession(sessionId?) is called and posts its request.
CallCreateSession ==
    /\ pc = "idle"
    /\ \E s \in SessionIdArgs :
        /\ arg' = Fld("sessionId", s)
        /\ config' = RequestConfig("createSession", arg')
    /\ op' = "createSession"
    /\ pc' = "requested"
    /\ UNCHANGED <<outcome, settled, intercepted, result, last>>

\* One of the other operations is called and sends its request.
CallOther ==
    /\ pc = "idle"
    /\ \E o \in Operations \ {"createSession"} :
        /\ op' = o
        /\ arg' = IF o \in {"getAllSessions", "healthCheck"}
                  THEN EmptyObject ELSE [sessionId |-> "s1"]
        /\ config' = RequestConfig(o, arg')
    /\ pc' = "requested"
    /\ UNCHANGED <<outcome, settled, intercepted, result, last>>

\* The backend answers with an HTTP response and axios settles the request.
Respond ==
    /\ pc = "requested"
    /\ \E r \in Responses :
        /\ outcome' = [kind |-> "response", response |-> r]
        /\ settled' = Settle(config, outcome')
    /\ pc' = "settled"
    /\ UNCHANGED <<op, arg, config, intercepted, result, last>>

\* No response arrives and axios rejects the request.
NetworkFailure ==
    /\ pc = "requested"
    /\ \E m \in NetworkMessages :
        /\ outcome' = [kind |-> "network", message |-> m]
        /\ settled' = Settle(config, outcome')
    /\ pc' = "settled"
    /\ UNCHANGED <<op, arg, config, intercepted, result, last>>

\* The response interceptor runs on the settled request.
RunInterceptor ==
    /\ pc = "settled"
    /\ intercepted' = Intercept(settled)
    /\ pc' = "intercepted"
    /\ UNCHANGED <<op, arg, config, outcome, settled, result, last>>

\* createSession resumes after its await.
ResumeCreateSession ==
    /\ pc = "intercepted"
    /\ op = "createSession"
    /\ result' = CreateSessionResult(intercepted, arg)
    /\ pc' = "done"
    /\ UNCHANGED <<op, arg, config, outcome, settled, intercepted, last>>

\* Any other operation resumes after its await.
ResumeOther ==
    /\ pc = "intercepted"
    /\ op # "createSession"
    /\ result' = PlainResult(intercepted)
    /\ pc' = "done"
    /\ UNCHANGED <<op, arg, config, outcome, settled, intercepted, last>>

\* The caller has consumed the promise; the next call can start.
Finish ==
    /\ pc = "done"
    /\ pc' = "idle"
    /\ op' = "none"
    /\ arg' = EmptyObject
    /\ config' = EmptyObject
    /\ outcome' = EmptyObject
    /\ settled' = EmptyObject
    /\ intercepted' = EmptyObject
    /\ result' = EmptyObject
    /\ UNCHANGED last

\* Status and body.retryable of an outcome: what the decision table reads.
Key(out) ==
    IF out.kind = "network"
    THEN [status |-> {}, retryable |-> {}]
    ELSE [status |-> {out.response.status},
          retryable |-> Get(BodyOf(out.response.data), "retryable")]

\* As Finish, for createSession, keeping what the call was answered and returned.
FinishRemember ==
    /\ pc = "done"
    /\ op = "createSession"
    /\ result.state = "fulfilled"
    /\ last' = [seen |-> TRUE, key |-> Key(outcome), ok |-> result.value.ok,
                retryable |-> Get(result.value, "retryable")]
    /\ pc' = "idle"
    /\ op' = "none"
    /\ arg' = EmptyObject
    /\ config' = EmptyObject
    /\ outcome' = EmptyObject
    /\ settled' = EmptyObject
    /\ intercepted' = EmptyObject
    /\ result' = EmptyObject

Next ==
    \/ CallCreateSession
    \/ CallOther
    \/ Respond
    \/ NetworkFailure
    \/ RunInterceptor
    \/ ResumeCreateSession
    \/ ResumeOther
    \/ Finish

Spec == Init /\ [][Next]_vars

\* Successive createSession calls, each remembered for the next one.
NextHistory ==
    \/ CallCreateSession
    \/ Respond
    \/ NetworkFailure
    \/ RunInterceptor
    \/ ResumeCreateSession
    \/ FinishRemember

SpecHistory == Init /\ [][NextHistory]_vars

---------------------------------------------------------------------------
(* Vocabulary of the properties *)

CreateSessionDone == pc = "done" /\ op = "createSession"

OtherDone == pc = "done" /\ op # "createSession"

Answered == outcome.kind = "response"

Status == outcome.response.status

\* The body as the code reads it (an absent body reads as an empty object).
Body == BodyOf(outcome.response.data)

RetryableIsFalse == Has(Body, "retryable") /\ Body.retryable = FALSE

Resolved == result.state = "fulfilled"

\* The message createSession documents for an unclassified answer.
BodyMessageOrHttp ==
    IF Has(Body, "message") /\ Body.message # ""
    THEN Body.message
    ELSE "HTTP " \o ToString(Status)

---------------------------------------------------------------------------
(* C1 *)

\* C1: a 503 answer to createSession resolves to ok = false, retryable = true
\* unless body.retryable is exactly false, the 'temporarily unavailable'
\* message, and retryAfter equal to the retry-after header.
C1_Unavailable ==
    (CreateSessionDone /\ Answered /\ Status = 503) =>
        /\ Resolved
        /\ result.value.ok = FALSE
        /\ result.value.retryable = ~RetryableIsFalse
        /\ result.value.message = "Service temporarily unavailable. Retrying..."
        /\ Get(result.value, "retryAfter") = Get(outcome.response.headers, "retry-after")

C1_Witness ==
    /\ CreateSessionDone /\ Answered /\ Status = 503
    /\ RetryableIsFalse
    /\ Resolved
    /\ result.value.retryable = FALSE
    /\ Has(result.value, "retryAfter")
    /\ result.value.retryAfter = "30"

---------------------------------------------------------------------------
(* C2 *)

\* C2: a 500 answer whose body has retryable = false resolves to ok = false,
\* retryable = false and the 'failed to initialize' message.
C2_InitFailed ==
    (CreateSessionDone /\ Answered /\ Status = 500 /\ RetryableIsFalse) =>
        /\ Resolved
        /\ result.value.ok = FALSE
        /\ result.value.retryable = FALSE
        /\ result.value.message =
             "Failed to initialize WhatsApp session. Please try again later."

---------------------------------------------------------------------------
(* C3 *)

---------------------------------------------------------------------------
(* C4 *)

\* C4: createSession returns ok = true exactly when the backend answered
\* 201; any other 2xx answer yields ok = false, retryable = false and the
\* body's message or 'HTTP <status>'.
C4_OnlyCreated ==
    CreateSessionDone =>
        /\ Resolved
        /\ (result.value.ok = TRUE) <=> (Answered /\ Status = 201)
        /\ (Answered /\ Status >= 200 /\ Status < 300 /\ Status # 201) =>
              /\ result.value.ok = FALSE
              /\ result.value.retryable = FALSE
              /\ result.value.message = BodyMessageOrHttp

C4_Witness ==
    /\ CreateSessionDone /\ Answered /\ Status = 200
    /\ ~Has(Body, "message")
    /\ Resolved
    /\ result.value.ok = FALSE
    /\ result.value.message = "HTTP 200"

---------------------------------------------------------------------------
(* C5 *)

\* C5: an error answer that is neither 503 nor (500 with retryable = false)
\* resolves to ok = false, retryable = false and the body's message or
\* 'HTTP <status>'.
C5_OtherErrors ==
    (/\ CreateSessionDone /\ Answered
     /\ ~(Status >= 200 /\ Status < 300)
     /\ Status # 503
     /\ ~(Status = 500 /\ RetryableIsFalse)) =>
        /\ Resolved
        /\ result.value.ok = FALSE
        /\ result.value.retryable = FALSE
        /\ result.value.message = BodyMessageOrHttp

---------------------------------------------------------------------------
(* C6 *)

\* C6: the interceptor hands on the original error only for a 503 answer to
\* createSession's request; a failing request of any other operation is
\* rejected with the new, normalized Error.
C6_PassThroughOnlyCreate ==
    (pc \in {"intercepted", "done"} /\ settled.state = "rejected") =>
        /\ intercepted.state = "rejected"
        /\ (intercepted.reason = settled.reason) =>
              (op = "createSession" /\ Answered /\ Status = 503)
        /\ (op # "createSession") => intercepted.reason.name = "Error"

---------------------------------------------------------------------------
(* C7 *)

\* C7: an error the interceptor does not hand on unchanged is replaced by a
\* new Error without a response whose message is body.error if non-empty,
\* else the original error's message if non-empty, else 'Unknown error
\* occurred'; body.message plays no part.
C7_NormalizedError ==
    (/\ pc \in {"intercepted", "done"}
     /\ settled.state = "rejected"
     /\ intercepted.reason # settled.reason) =>
        /\ intercepted.state = "rejected"
        /\ intercepted.reason.name = "Error"
        /\ ~Has(intercepted.reason, "response")
        /\ intercepted.reason.message =
              IF Answered /\ Has(Body, "error") /\ Body.error # ""
              THEN Body.error
              ELSE IF settled.reason.message # ""
                   THEN settled.reason.message
                   ELSE "Unknown error occurred"

C7_Witness ==
    /\ pc = "intercepted"
    /\ settled.state = "rejected"
    /\ Answered
    /\ Has(Body, "message") /\ Has(Body, "error")
    /\ Body.error = "Backend exploded"
    /\ intercepted.reason.name = "Error"
    /\ intercepted.reason.message = "Backend exploded"

---------------------------------------------------------------------------
(* C8 *)

\* C8: in a result of createSession retryable = true implies a 503 answer
\* whose body.retryable is not false, and a defined retryAfter implies a
\* 503 answer; two calls answered with the same status and the same
\* body.retryable return the same ok and the same retryable.
C8_DecisionTable ==
    CreateSessionDone =>
        /\ Resolved
        /\ (Has(result.value, "retryable") /\ result.value.retryable = TRUE) =>
              (Answered /\ Status = 503 /\ ~RetryableIsFalse)
        /\ Has(result.value, "retryAfter") => (Answered /\ Status = 503)
        /\ (last.seen /\ last.key = Key(outcome)) =>
              /\ last.ok = result.value.ok
              /\ last.retryable = Get(result.value, "retryable")

C8_Witness ==
    /\ CreateSessionDone /\ Answered /\ Status = 503
    /\ last.seen
    /\ last.key = Key(outcome)
    /\ last.retryable = {TRUE}
    /\ Resolved
    /\ result.value.retryable = TRUE
    /\ Has(Body, "message")
    /\ Has(result.value, "retryAfter")

---------------------------------------------------------------------------
(* C9 *)

\* C9: every operation other than createSession resolves with the response
\* body unchanged on a 2xx answer and rejects on any other answer and on a
\* network failure.
C9_OthersRejectOrPassBody ==
    OtherDone =>
        IF Answered /\ Status >= 200 /\ Status < 300
        THEN Resolved /\ result.value = outcome.response.data
        ELSE result.state = "rejected"

C9_Witness ==
    /\ OtherDone
    /\ op = "getSessionStatus"
    /\ Answered /\ Status = 503
    /\ result.state = "rejected"

---------------------------------------------------------------------------
(* C10 *)

\* C10: on a 201 answer sessionData is body.data when that is present;
\* otherwise it is a fallback with status 'initializing' whose id is the
\* body's sessionId if non-empty, else the sessionId argument if non-empty,
\* else 'default'. Whenever ok = true, sessionData is defined and has an id.
C10_SessionData ==
    CreateSessionDone =>
        /\ Resolved
        /\ (Answered /\ Status = 201) =>
              /\ Has(result.value, "sessionData")
              /\ IF Has(Body, "data")
                 THEN result.value.sessionData = Body.data
                 ELSE /\ result.value.sessionData.status = "initializing"
                      /\ result.value.sessionData.id =
                            IF Has(Body, "sessionId") /\ Body.sessionId # ""
                            THEN Body.sessionId
                            ELSE IF Has(arg, "sessionId") /\ arg.sessionId # ""
                                 THEN arg.sessionId
                                 ELSE "default"
        /\ (result.value.ok = TRUE) =>
              /\ Has(result.value, "sessionData")
              /\ Has(result.value.sessionData, "id")

C10_Witness ==
    /\ CreateSessionDone /\ Answered /\ Status = 201
    /\ ~Has(Body, "data")
    /\ Has(Body, "sessionId") /\ Body.sessionId = ""
    /\ Has(arg, "sessionId") /\ arg.sessionId = "s1"
    /\ Resolved
    /\ result.value.sessionData.id = "s1"

===========================================================================
